---------------------------- MODULE Spec2Model ----------------------------
(***************************************************************************)
(* The list pages of the security-asset dashboard (certificates, SSH keys, *)
(* code-signing keys, audit logs) as one state machine: the cache-backed   *)
(* loader, the query pipeline, pagination / incremental reveal, row        *)
(* expansion and the certificate name edit.                                *)
(*                                                                         *)
(* Text is a sequence of one-character strings, a date string is the       *)
(* number of the day it names, an optional value is a sequence of length   *)
(* 0 or 1, and a localStorage item is [present, text] where text is the    *)
(* sequence of JSON tokens stored under the key.                           *)
(***************************************************************************)
EXTENDS Integers, Sequences, FiniteSets, TLC

VARIABLES
    storage,          \* localStorage: key -> item
    page,             \* the route: which page component the browser shows
    pc,               \* "idle" (not activated) | "mounted"
    pending,          \* the items read by the loads waiting for their 600 ms
                      \* timer, oldest first; the last is the mounted instance's
    certificates,     \* Certificates: useState<Certificate[]>([])
    sshKeys,          \* SSHKeys: useState<SSHKey[]>([])
    keys,             \* CodeSigning: useState<CodeSigningKey[]>([])
    logs,             \* AuditLogs: useState<AuditLog[]>([])
    loading,          \* useState(true)
    error,            \* useState<string | null>(null)
    searchQuery,      \* useState('')
    debouncedSearch,  \* useDebounce(searchQuery, 300)
    debounceTimer,    \* TRUE while the 300 ms timer of useDebounce runs
    domainFilter,     \* Certificates: useState('all')
    trustFilter,      \* SSHKeys: useState('all')
    actionTypeFilter, \* AuditLogs: useState('all')
    dateRange,        \* AuditLogs: useState<{from?, to?}>({})
    sortDirection,    \* 'asc' | 'desc'
    currentPage,      \* Certificates: useState(1)
    pageSize,         \* Certificates: useState(5)
    editingCert,      \* Certificates: useState<Certificate | null>(null)
    editName,         \* Certificates: useState('')
    displayCount,     \* AuditLogs: useState(PAGE_SIZE)
    expandedRows,     \* SSHKeys / AuditLogs: useState<Set<string>>(new Set())
    viewMode,         \* CodeSigning: useState<ViewMode>
    filteredData,     \* the useMemo cell of the page: [deps, value]
    q                 \* inputs and result of one evaluation of a pure function

vars == <<storage, page, pc, pending, certificates, sshKeys, keys, logs,
          loading, error, searchQuery, debouncedSearch, debounceTimer,
          domainFilter, trustFilter, actionTypeFilter, dateRange,
          sortDirection, currentPage, pageSize, editingCert, editName,
          displayCount, expandedRows, viewMode, filteredData, q>>

(***************************************************************************)
(* Bounds of the model.                                                    *)
(***************************************************************************)
NumCerts == 3
NumKeys == 3
NumLogs == 18
MaxLen == 3
MaxItems == 12
MaxSliceSize == 5
MaxIds == 3
MaxPageSize == 2
MaxPending == 2
MaxExpanded == 1
MaxDay == 2

(***************************************************************************)
(* Program constants.                                                      *)
(***************************************************************************)
PAGE_SIZE == 8
InitialPageSize == 5
FirstPage == 1

CertificatesKey == "certificates-cache"
SSHKeysKey == "ssh-keys-cache"
CodeSigningKeyCache == "code-signing-cache"
AuditLogsKey == "audit-logs-cache"
VIEW_MODE_KEY == "code-signing-view-mode"

Pages == {"certificates", "ssh-keys", "code-signing", "audit-logs"}

CACHE_KEY(p) ==
    CASE p = "certificates" -> CertificatesKey
      [] p = "ssh-keys" -> SSHKeysKey
      [] p = "code-signing" -> CodeSigningKeyCache
      [] OTHER -> AuditLogsKey

NoError == "null"

LoadErrorMessage(p) ==
    CASE p = "certificates" -> "Failed to load certificates"
      [] p = "ssh-keys" -> "Failed to load SSH keys"
      [] p = "code-signing" -> "Failed to load code signing keys"
      [] OTHER -> "Failed to load audit logs"

(***************************************************************************)
(* Text: String.prototype.toLowerCase, includes, trim.                     *)
(***************************************************************************)
Min(a, b) == IF a < b THEN a ELSE b

LowerChar(c) ==
    CASE c = "A" -> "a"
      [] c = "B" -> "b"
      [] c = "X" -> "x"
      [] OTHER -> c

ToLowerCase(s) == [i \in 1..Len(s) |-> LowerChar(s[i])]

Includes(s, sub) ==
    \E i \in 0..(Len(s) - Len(sub)) : SubSeq(s, i + 1, i + Len(sub)) = sub

IsWhiteSpace(c) == c = " "

RECURSIVE TrimStart(_)
TrimStart(s) ==
    IF s # <<>> /\ IsWhiteSpace(Head(s)) THEN TrimStart(Tail(s)) ELSE s

RECURSIVE TrimEnd(_)
TrimEnd(s) ==
    IF s # <<>> /\ IsWhiteSpace(s[Len(s)])
    THEN TrimEnd(SubSeq(s, 1, Len(s) - 1))
    ELSE s

Trim(s) == TrimEnd(TrimStart(s))

\* Array.prototype.slice(start, end), 0-based, end exclusive, both clamped.
Slice(s, start, end) == SubSeq(s, Min(start, Len(s)) + 1, Min(end, Len(s)))

\* Array.prototype.sort(compareFn): stable (ECMAScript 2019). order is the
\* sequence of the indices sorted so far; x goes after the last index whose
\* element does not compare greater. compare[i][j] is compareFn(s[i], s[j]).
RECURSIVE InsertSorted(_, _, _)
InsertSorted(order, x, compare) ==
    IF order = <<>> THEN <<x>>
    ELSE IF compare[order[Len(order)]][x] <= 0 THEN Append(order, x)
    ELSE Append(InsertSorted(SubSeq(order, 1, Len(order) - 1), x, compare),
                order[Len(order)])

RECURSIVE SortFrom(_, _, _)
SortFrom(order, rest, compare) ==
    IF rest = <<>> THEN order
    ELSE SortFrom(InsertSorted(order, Head(rest), compare), Tail(rest), compare)

Sort(s, compare) ==
    LET order == SortFrom(<<>>, [i \in 1..Len(s) |-> i], compare)
    IN  [k \in 1..Len(s) |-> s[order[k]]]

\* new Date(dateString).getTime(): milliseconds of the day the string names.
GetTime(dateString) == dateString * 86400000

(***************************************************************************)
(* JSON.stringify / JSON.parse of a record collection, and localStorage.   *)
(***************************************************************************)
LBracket == [t |-> "["]
RBracket == [t |-> "]"]
LBrace == [t |-> "{"]
RBrace == [t |-> "}"]
Member(k, v) == [t |-> "member", k |-> k, v |-> v]

\* The property order of the record objects (insertion order of the data).
Fields == <<"id", "name", "domain", "issuer", "status", "expiryDate",
            "owner", "fingerprint", "trustLevel",
            "alias", "algorithm",
            "timestamp", "actionType">>

RECURSIVE StringifyMembers(_, _)
StringifyMembers(r, i) ==
    IF i > Len(Fields) THEN <<>>
    ELSE (IF Fields[i] \in DOMAIN r THEN <<Member(Fields[i], r[Fields[i]])>>
          ELSE <<>>) \o StringifyMembers(r, i + 1)

StringifyObject(r) == <<LBrace>> \o StringifyMembers(r, 1) \o <<RBrace>>

RECURSIVE StringifyElements(_)
StringifyElements(data) ==
    IF data = <<>> THEN <<>>
    ELSE StringifyObject(Head(data)) \o StringifyElements(Tail(data))

\* JSON.stringify(data)
Stringify(data) == <<LBracket>> \o StringifyElements(data) \o <<RBracket>>

\* The object of the members text[from..to].
ObjectOf(text, from, to) ==
    [k \in {text[m].k : m \in from..to} |->
        text[CHOOSE m \in from..to :
                /\ text[m].k = k
                /\ \A n \in from..to : text[n].k = k => n <= m].v]

\* The elements of the array text from token i on: <<elements>>, or <<>> when
\* the text ends early or a token is out of place (JSON.parse throws a
\* SyntaxError). The texts are arrays of objects, whole or cut short.
RECURSIVE ParseElements(_, _, _)
ParseElements(text, i, acc) ==
    IF i > Len(text) THEN <<>>
    ELSE IF text[i].t = "]" THEN (IF i = Len(text) THEN <<acc>> ELSE <<>>)
    ELSE IF text[i].t # "{" THEN <<>>
    ELSE LET ends == {j \in (i + 1)..Len(text) : text[j].t # "member"}
         IN  IF ends = {} THEN <<>>
             ELSE LET j == CHOOSE e \in ends : \A f \in ends : e <= f
                  IN  IF text[j].t # "}" THEN <<>>
                      ELSE ParseElements(text, j + 1,
                               Append(acc, ObjectOf(text, i + 1, j - 1)))

\* JSON.parse(text): <<value>>, or <<>> when it throws.
Parse(text) ==
    IF text = <<>> \/ text[1].t # "[" THEN <<>>
    ELSE ParseElements(text, 2, <<>>)

\* localStorage items. getItem gives null for a key never set.
NullItem == [present |-> FALSE, text |-> <<>>]
Item(text) == [present |-> TRUE, text |-> text]
EmptyText == <<>>
CorruptText == <<LBracket, LBrace>>

StorageKeys == {CertificatesKey, SSHKeysKey, CodeSigningKeyCache, AuditLogsKey,
                VIEW_MODE_KEY}

GetItem(store, key) == store[key]
SetItem(store, key, text) == [store EXCEPT ![key] = Item(text)]

\* A test of the item for null alone (cached !== null).
Present(item) == item.present

\* if (cached): null and the empty string are falsy.
Truthy(item) == item.present /\ item.text # <<>>

(***************************************************************************)
(* The bundled datasets (src/data/*.json): one array of records per kind.  *)
(***************************************************************************)
Pick(pool, i) == pool[((i - 1) % Len(pool)) + 1]

CertNames == << <<"A", "b">>, <<"b", "a">>, <<"B">> >>
CertDomains == << <<"x">>, <<"y">> >>
CertIssuers == << <<"c">> >>
CertExpiryDates == <<2, 1, 2>>

certificatesData ==
    [i \in 1..NumCerts |->
        [id |-> i, name |-> Pick(CertNames, i), domain |-> Pick(CertDomains, i),
         issuer |-> Pick(CertIssuers, i), status |-> "active",
         expiryDate |-> Pick(CertExpiryDates, i)]]

KeyOwners == << <<"A", "b">>, <<"b">> >>
KeyFingerprints == << <<"x", "A">>, <<"y">>, <<"x">> >>
TrustLevels == <<"low", "high", "low", "medium">>

sshKeysData ==
    [i \in 1..NumKeys |->
        [id |-> i, owner |-> Pick(KeyOwners, i),
         fingerprint |-> Pick(KeyFingerprints, i),
         trustLevel |-> Pick(TrustLevels, i)]]

KeyAliases == << <<"A", "b">>, <<"b">>, <<"B", "a">> >>
KeyAlgorithms == << <<"x">>, <<"y", "A">> >>

codeSigningData ==
    [i \in 1..NumKeys |->
        [id |-> i, alias |-> Pick(KeyAliases, i),
         algorithm |-> Pick(KeyAlgorithms, i)]]

ActionTypes == <<"certificate.renew", "ssh_key.create">>
\* A log timestamp is the number of the hour it names.
auditLogsData ==
    [i \in 1..NumLogs |->
        [id |-> i, timestamp |-> 24 + ((i * 7) % 48),
         actionType |-> Pick(ActionTypes, i)]]

BundledData(p) ==
    CASE p = "certificates" -> certificatesData
      [] p = "ssh-keys" -> sshKeysData
      [] p = "code-signing" -> codeSigningData
      [] OTHER -> auditLogsData

(***************************************************************************)
(* Query pipeline of each page (the body of its filteredData useMemo).     *)
(***************************************************************************)
All == <<"a", "l", "l">>

\* A search that compares the fields with the query as typed.
CertMatchesSearchCaseSensitive(c, search) ==
    \/ Includes(c.name, search)
    \/ Includes(c.domain, search)
    \/ Includes(c.issuer, search)

CertMatchesSearch(c, search) ==
    LET query == ToLowerCase(search)
    IN  \/ Includes(ToLowerCase(c.name), query)
        \/ Includes(ToLowerCase(c.domain), query)
        \/ Includes(ToLowerCase(c.issuer), query)

\* A comparator that never answers 0: equal dates count as out of order.
CertCompareUnstable(a, b, direction) ==
    LET dateA == GetTime(a.expiryDate)
        dateB == GetTime(b.expiryDate)
    IN  IF direction = "asc"
        THEN (IF dateA < dateB THEN -1 ELSE 1)
        ELSE (IF dateB < dateA THEN -1 ELSE 1)

CertCompare(a, b, direction) ==
    LET dateA == GetTime(a.expiryDate)
        dateB == GetTime(b.expiryDate)
    IN  IF direction = "asc" THEN dateA - dateB ELSE dateB - dateA

CertificatesFilteredData(certs, search, filter, direction) ==
    LET Matches(c) == CertMatchesSearch(c, search)
        searched == IF search # <<>> THEN SelectSeq(certs, Matches) ELSE certs
        InDomain(c) == c.domain = filter
        result == IF filter # All THEN SelectSeq(searched, InDomain)
                  ELSE searched
        compare == [i \in 1..Len(result) |-> [j \in 1..Len(result) |->
                       CertCompare(result[i], result[j], direction)]]
    IN  Sort(result, compare)

KeyMatchesSearch(k, search) ==
    LET query == ToLowerCase(search)
    IN  \/ Includes(ToLowerCase(k.owner), query)
        \/ Includes(ToLowerCase(k.fingerprint), query)

trustOrder(level) ==
    CASE level = "high" -> 3
      [] level = "medium" -> 2
      [] OTHER -> 1

KeyCompare(a, b, direction) ==
    LET orderA == trustOrder(a.trustLevel)
        orderB == trustOrder(b.trustLevel)
    IN  IF direction = "desc" THEN orderB - orderA ELSE orderA - orderB

SSHKeysFilteredData(sshkeys, search, filter, direction) ==
    LET Matches(k) == KeyMatchesSearch(k, search)
        searched == IF search # <<>> THEN SelectSeq(sshkeys, Matches)
                    ELSE sshkeys
        HasTrust(k) == k.trustLevel = filter
        result == IF filter # "all" THEN SelectSeq(searched, HasTrust)
                  ELSE searched
        compare == [i \in 1..Len(result) |-> [j \in 1..Len(result) |->
                       KeyCompare(result[i], result[j], direction)]]
    IN  Sort(result, compare)

SigningKeyMatchesSearch(k, search) ==
    LET query == ToLowerCase(search)
    IN  \/ Includes(ToLowerCase(k.alias), query)
        \/ Includes(ToLowerCase(k.algorithm), query)

CodeSigningFilteredData(ks, search) ==
    LET Matches(k) == SigningKeyMatchesSearch(k, search)
    IN  IF search = <<>> THEN ks ELSE SelectSeq(ks, Matches)

\* new Date(timestamp): milliseconds; a picked day is its local midnight.
TimestampTime(timestamp) == timestamp * 3600000
DayTime(day) == day * 86400000

\* A comparator for oldest first.
LogCompareOldestFirst(a, b) ==
    TimestampTime(a.timestamp) - TimestampTime(b.timestamp)

LogCompare(a, b) == TimestampTime(b.timestamp) - TimestampTime(a.timestamp)

\* dateRange is [from, to], each <<>> (undefined) or <<day>>.
AuditLogsFilteredData(ls, filter, range) ==
    LET HasType(l) == l.actionType = filter
        typed == IF filter # "all" THEN SelectSeq(ls, HasType) ELSE ls
        NotBefore(l) == TimestampTime(l.timestamp) >= DayTime(range.from[1])
        lower == IF range.from # <<>> THEN SelectSeq(typed, NotBefore)
                 ELSE typed
        NotAfter(l) == TimestampTime(l.timestamp) <= DayTime(range.to[1])
        result == IF range.to # <<>> THEN SelectSeq(lower, NotAfter) ELSE lower
        compare == [i \in 1..Len(result) |-> [j \in 1..Len(result) |->
                       LogCompare(result[i], result[j])]]
    IN  Sort(result, compare)

(***************************************************************************)
(* Pagination (certificates) and incremental reveal (audit logs).          *)
(***************************************************************************)
\* Math.floor(length / size)
TotalPagesFloor(length, size) == length \div size

\* Math.ceil(length / size)
TotalPages(length, size) == (length + size - 1) \div size

PaginatedData(data, current, size) ==
    Slice(data, (current - 1) * size, current * size)

DisplayedData(data, count) == Slice(data, 0, count)

HasMore(count, length) == count < length

(***************************************************************************)
(* The component: initial state, render (useMemo) and effects.             *)
(***************************************************************************)
collVars == <<certificates, sshKeys, keys, logs>>
loadVars == <<loading, error>>
searchVars == <<searchQuery, debouncedSearch, debounceTimer>>
filterVars == <<domainFilter, trustFilter, actionTypeFilter, dateRange>>
pageVars == <<currentPage, pageSize>>
editVars == <<editingCert, editName>>

NoQuery == [fn |-> "none"]
NoRange == [from |-> <<>>, to |-> <<>>]
EmptyMemo == [deps |-> <<>>, value |-> <<>>]

\* A dependency array that leaves the collection out.
CertificatesDepsWithoutCollection(certs, search, filter, direction) ==
    <<search, filter, direction>>

CertificatesDeps(certs, search, filter, direction) ==
    <<certs, search, filter, direction>>

SSHKeysDeps(sshkeys, search, filter, direction) ==
    <<sshkeys, search, filter, direction>>

CodeSigningDeps(ks, search) == <<ks, search>>

AuditLogsDeps(ls, filter, range) == <<ls, filter, range>>

\* The dependency array of the page's filteredData useMemo.
DepsOf(p, certs, sshkeys, ks, ls, search, domain, trust, action, range, direction) ==
    CASE p = "certificates" -> CertificatesDeps(certs, search, domain, direction)
      [] p = "ssh-keys" -> SSHKeysDeps(sshkeys, search, trust, direction)
      [] p = "code-signing" -> CodeSigningDeps(ks, search)
      [] OTHER -> AuditLogsDeps(ls, action, range)

\* The body of the page's filteredData useMemo.
FilteredDataOf(p, certs, sshkeys, ks, ls, search, domain, trust, action, range, direction) ==
    CASE p = "certificates" ->
           CertificatesFilteredData(certs, search, domain, direction)
      [] p = "ssh-keys" -> SSHKeysFilteredData(sshkeys, search, trust, direction)
      [] p = "code-signing" -> CodeSigningFilteredData(ks, search)
      [] OTHER -> AuditLogsFilteredData(ls, action, range)

MemoDeps ==
    DepsOf(page, certificates, sshKeys, keys, logs, debouncedSearch,
           domainFilter, trustFilter, actionTypeFilter, dateRange,
           sortDirection)

\* The pipeline of the page on the current state.
ComputeFilteredData ==
    FilteredDataOf(page, certificates, sshKeys, keys, logs, debouncedSearch,
                   domainFilter, trustFilter, actionTypeFilter, dateRange,
                   sortDirection)

\* useMemo(compute, deps): the cell is recomputed when a dependency changed.
UseMemo(cell, deps, value) ==
    IF cell.deps = deps THEN cell ELSE [deps |-> deps, value |-> value]

\* The render that follows the state updates of a handler.
Render ==
    filteredData' =
        UseMemo(filteredData,
                DepsOf(page', certificates', sshKeys', keys', logs',
                       debouncedSearch', domainFilter', trustFilter',
                       actionTypeFilter', dateRange', sortDirection'),
                FilteredDataOf(page', certificates', sshKeys', keys', logs',
                               debouncedSearch', domainFilter', trustFilter',
                               actionTypeFilter', dateRange', sortDirection'))

\* The collection state of the mounted page.
Collection ==
    CASE page = "certificates" -> certificates
      [] page = "ssh-keys" -> sshKeys
      [] page = "code-signing" -> keys
      [] OTHER -> logs

SetCollection(data) ==
    /\ certificates' = IF page = "certificates" THEN data ELSE certificates
    /\ sshKeys' = IF page = "ssh-keys" THEN data ELSE sshKeys
    /\ keys' = IF page = "code-signing" THEN data ELSE keys
    /\ logs' = IF page = "audit-logs" THEN data ELSE logs

\* A persist effect without the test of the length.
PersistEffectUnguarded(store, certs) ==
    IF page = "certificates"
    THEN SetItem(store, CertificatesKey, Stringify(certs))
    ELSE store

\* A persist effect that writes the filtered view it was rendered with.
PersistEffectOfView(store, certs) ==
    IF page = "certificates" /\ Len(filteredData.value) > 0
    THEN SetItem(store, CertificatesKey, Stringify(filteredData.value))
    ELSE store

\* Certificates: useEffect(() => { if (certificates.length > 0) setItem }, [certificates])
PersistEffect(store, certs) ==
    IF page = "certificates" /\ Len(certs) > 0
    THEN SetItem(store, CertificatesKey, Stringify(certs))
    ELSE store

\* The page without its reset effect.
PageResetEffectSkipped(current) == current

\* Certificates: useEffect(() => setCurrentPage(1), [debouncedSearch, domainFilter, pageSize])
PageResetEffect(current) ==
    IF /\ page = "certificates"
       /\ <<debouncedSearch', domainFilter', pageSize'>>
            # <<debouncedSearch, domainFilter, pageSize>>
    THEN FirstPage
    ELSE current

\* A reset effect that hides every record.
DisplayResetEffectToZero(changed, count) ==
    IF page = "audit-logs" /\ changed THEN 0 ELSE count

\* The page without its reset effect.
DisplayResetEffectSkipped(changed, count) == count

\* AuditLogs: useEffect(() => setDisplayCount(PAGE_SIZE), [actionTypeFilter, dateRange])
DisplayResetEffect(changed, count) ==
    IF page = "audit-logs" /\ changed THEN PAGE_SIZE ELSE count

totalPages == TotalPages(Len(filteredData.value), pageSize)
paginatedData == PaginatedData(filteredData.value, currentPage, pageSize)
displayedData == DisplayedData(filteredData.value, displayCount)
hasMore == HasMore(displayCount, Len(filteredData.value))

\* The controls are rendered unless the page returns the error panel.
Rendered == pc = "mounted" /\ error = NoError

\* What the page body shows.
View ==
    IF pc # "mounted" THEN "none"
    ELSE IF error # NoError THEN "error-panel-with-retry"
    ELSE IF loading THEN "skeleton"
    ELSE IF page = "certificates"
         THEN (IF paginatedData = <<>> THEN "empty" ELSE "rows")
    ELSE IF page = "audit-logs"
         THEN (IF displayedData = <<>> THEN "empty" ELSE "rows")
    ELSE IF filteredData.value = <<>> THEN "empty" ELSE "rows"

\* The string stored under a key, as the text of the item.
StringText(string) == <<[t |-> "text", v |-> string]>>

\* CodeSigning: useState<ViewMode>(() => (saved as ViewMode) || 'table')
InitialViewMode(saved) ==
    IF saved.present /\ saved.text # <<>> THEN saved.text[1].v ELSE "table"

\* useState(false) for the loading flag.
NotLoading == FALSE

\* const [loading, setLoading] = useState(true)
InitialLoading == TRUE

\* useState initialisers of a new component instance.
FreshComponent ==
    /\ certificates' = <<>>
    /\ sshKeys' = <<>>
    /\ keys' = <<>>
    /\ logs' = <<>>
    /\ loading' = InitialLoading
    /\ error' = NoError
    /\ searchQuery' = <<>>
    /\ debouncedSearch' = <<>>
    /\ debounceTimer' = FALSE
    /\ domainFilter' = All
    /\ trustFilter' = "all"
    /\ actionTypeFilter' = "all"
    /\ dateRange' = NoRange
    /\ sortDirection' = IF page = "ssh-keys" THEN "desc" ELSE "asc"
    /\ currentPage' = FirstPage
    /\ pageSize' = InitialPageSize
    /\ editingCert' = <<>>
    /\ editName' = <<>>
    /\ displayCount' = PAGE_SIZE
    /\ expandedRows' = {}
    /\ viewMode' = IF page = "code-signing"
                   THEN InitialViewMode(GetItem(storage, VIEW_MODE_KEY))
                   ELSE "table"

\* A load that reads another key than the one the page writes.
StartLoadOtherKey == GetItem(storage, VIEW_MODE_KEY)

\* loadData up to its await: the continuation keeps what getItem returned.
StartLoad == GetItem(storage, CACHE_KEY(page))

(***************************************************************************)
(* Initial state: the browser at a route, before the page is activated.    *)
(***************************************************************************)
RECURSIVE Reverse(_)
Reverse(s) == IF s = <<>> THEN <<>> ELSE Append(Reverse(Tail(s)), Head(s))

\* Collections a snapshot of an earlier session may hold.
Snapshots(p) == {<<>>, BundledData(p), Reverse(Tail(BundledData(p)))}

InitialItems(p) ==
    {NullItem, Item(EmptyText), Item(CorruptText)}
        \cup {Item(Stringify(c)) : c \in Snapshots(p)}

\* What localStorage may hold under the view-mode key: nothing, the empty
\* string, a mode, or a string that is not a mode.
InitialViewModeItems ==
    {NullItem, Item(EmptyText)}
        \cup {Item(StringText(string)) : string \in {"table", "grid", "list"}}

IdleComponent ==
    /\ pc = "idle"
    /\ pending = <<>>
    /\ certificates = <<>>
    /\ sshKeys = <<>>
    /\ keys = <<>>
    /\ logs = <<>>
    /\ loading = InitialLoading
    /\ error = NoError
    /\ searchQuery = <<>>
    /\ debouncedSearch = <<>>
    /\ debounceTimer = FALSE
    /\ domainFilter = All
    /\ trustFilter = "all"
    /\ actionTypeFilter = "all"
    /\ dateRange = NoRange
    /\ sortDirection = IF page = "ssh-keys" THEN "desc" ELSE "asc"
    /\ currentPage = FirstPage
    /\ pageSize = InitialPageSize
    /\ editingCert = <<>>
    /\ editName = <<>>
    /\ displayCount = PAGE_SIZE
    /\ expandedRows = {}
    /\ viewMode = "table"
    /\ filteredData = EmptyMemo

Init ==
    /\ page \in Pages
    /\ \E item \in InitialItems(page),
          saved \in IF page = "code-signing"
                    THEN InitialViewModeItems ELSE {NullItem} :
          storage = [k \in StorageKeys |->
                        IF k = CACHE_KEY(page) THEN item
                        ELSE IF k = VIEW_MODE_KEY THEN saved
                        ELSE NullItem]
    /\ IdleComponent
    /\ q = NoQuery

(***************************************************************************)
(* Activation, reload and the deferred continuation of loadData.           *)
(***************************************************************************)
\* The route's component mounts: first render, then useEffect runs loadData
\* and the persist effect runs with the empty collection.
Activate ==
    /\ pc = "idle"
    /\ pc' = "mounted"
    /\ pending' = <<StartLoad>>
    /\ storage' = PersistEffect(storage, <<>>)
    /\ UNCHANGED <<page, q>>
    /\ FreshComponent
    /\ Render

\* The component is torn down and a new instance of the page is mounted; the
\* timer of the old instance's load is not cancelled.
Remount ==
    /\ pc = "mounted"
    /\ Len(pending) < MaxPending
    /\ pending' = Append(pending, StartLoad)
    /\ storage' = PersistEffect(storage, <<>>)
    /\ UNCHANGED <<page, pc, q>>
    /\ FreshComponent
    /\ Render

\* window.location.reload(): the retry of the error panel, or the browser's.
Reload ==
    /\ pc = "mounted"
    /\ pending' = <<StartLoad>>
    /\ storage' = PersistEffect(storage, <<>>)
    /\ UNCHANGED <<page, pc, q>>
    /\ FreshComponent
    /\ Render

\* A continuation that falls back to the bundled dataset when the parse fails.
LoadOutcomeDefaultOnThrow(cached) ==
    IF Truthy(cached) /\ Parse(cached.text) # <<>> THEN "parsed" ELSE "default"

\* A continuation that never looks at the item.
LoadOutcomeIgnoringCache(cached) == "default"

\* What the continuation does with the item it read before the await.
LoadOutcome(cached) ==
    IF Truthy(cached)
    THEN (IF Parse(cached.text) # <<>> THEN "parsed" ELSE "threw")
    ELSE "default"

\* setLoading(false) at the end of the try block only.
LoadingAfterLoadUnlessThrown(outcome) == outcome = "threw"

\* finally { setLoading(false) }
LoadingAfterLoad(outcome) == FALSE

\* A continuation whose state setters always reach the mounted instance.
LiveAlways(queue) == TRUE

\* The load at the head of the queue is the mounted instance's when no later
\* load waits behind it.
Live(queue) == Len(queue) = 1

\* The continuation of loadData after the 600 ms timer; timers fire in the
\* order they were set. State setters of a torn-down instance do nothing.
LoadResolve ==
    /\ pending # <<>>
    /\ LET cached == Head(pending)
           live == Live(pending)
           outcome == LoadOutcome(cached)
           data == CASE outcome = "parsed" -> Parse(cached.text)[1]
                     [] outcome = "default" -> BundledData(page)
                     [] OTHER -> Collection
           written == IF outcome = "default"
                      THEN SetItem(storage, CACHE_KEY(page),
                                   Stringify(BundledData(page)))
                      ELSE storage
       IN  /\ pending' = Tail(pending)
           /\ UNCHANGED <<page, pc, q>>
           /\ IF live
              THEN /\ SetCollection(data)
                   /\ error' = IF outcome = "threw"
                               THEN LoadErrorMessage(page) ELSE NoError
                   /\ loading' = LoadingAfterLoad(outcome)
                   /\ storage' = IF outcome = "threw" THEN written
                                 ELSE PersistEffect(written, data)
              ELSE /\ UNCHANGED <<collVars, loadVars>>
                   /\ storage' = written
           /\ UNCHANGED <<searchVars, filterVars, sortDirection, pageVars,
                          editVars, displayCount, expandedRows, viewMode>>
           /\ Render

(***************************************************************************)
(* Search, filter and sort controls.                                       *)
(***************************************************************************)
SearchTexts == {<<>>, <<"b">>, <<"A", "B">>}

\* SearchBar onChange={setSearchQuery}; useDebounce restarts its timer.
SetSearchQuery(text) ==
    /\ Rendered
    /\ page \in {"certificates", "ssh-keys", "code-signing"}
    /\ searchQuery' = text
    /\ debounceTimer' = IF text # searchQuery THEN TRUE ELSE debounceTimer
    /\ UNCHANGED <<storage, page, pc, pending, q, collVars, loadVars,
                   debouncedSearch, filterVars, sortDirection, pageVars,
                   editVars, displayCount, expandedRows, viewMode>>
    /\ Render

\* A timer callback that keeps the value applied before.
DebouncedValueKept(value, applied) == applied

\* setDebouncedValue(value): the value of the render that set the timer, which
\* is the latest, every later value having replaced the timer.
DebouncedValue(value, applied) == value

\* The 300 ms timer of useDebounce fires: setDebouncedValue(value).
DebounceFire ==
    /\ pc = "mounted"
    /\ debounceTimer
    /\ debounceTimer' = FALSE
    /\ debouncedSearch' = DebouncedValue(searchQuery, debouncedSearch)
    /\ UNCHANGED <<storage, page, pc, pending, q, collVars, loadVars,
                   searchQuery, filterVars, sortDirection, pageSize,
                   editVars, displayCount, expandedRows, viewMode>>
    /\ currentPage' = PageResetEffect(currentPage)
    /\ Render

\* The options of the domain filter: 'all' and the domains of the collection.
domains == {All} \cup {certificates[i].domain : i \in 1..Len(certificates)}

\* FilterSelect onChange={setDomainFilter}
SetDomainFilter(value) ==
    /\ Rendered
    /\ page = "certificates"
    /\ value \in domains
    /\ domainFilter' = value
    /\ UNCHANGED <<storage, page, pc, pending, q, collVars, loadVars,
                   searchVars, trustFilter, actionTypeFilter, dateRange,
                   sortDirection, pageSize, editVars, displayCount,
                   expandedRows, viewMode>>
    /\ currentPage' = PageResetEffect(currentPage)
    /\ Render

trustOptions == {"all", "high", "medium", "low"}

\* FilterSelect onChange={setTrustFilter}
SetTrustFilter(value) ==
    /\ Rendered
    /\ page = "ssh-keys"
    /\ value \in trustOptions
    /\ trustFilter' = value
    /\ UNCHANGED <<storage, page, pc, pending, q, collVars, loadVars,
                   searchVars, domainFilter, actionTypeFilter, dateRange,
                   sortDirection, pageVars, editVars, displayCount,
                   expandedRows, viewMode>>
    /\ Render

\* SortButton onToggle
ToggleSort ==
    /\ Rendered
    /\ page \in {"certificates", "ssh-keys"}
    /\ sortDirection' = IF sortDirection = "asc" THEN "desc" ELSE "asc"
    /\ UNCHANGED <<storage, page, pc, pending, q, collVars, loadVars,
                   searchVars, filterVars, pageVars, editVars, displayCount,
                   expandedRows, viewMode>>
    /\ Render

(***************************************************************************)
(* Certificates: pagination control and the name edit.                     *)
(***************************************************************************)
\* The Pagination control is rendered when !loading && filteredData.length > 0.
PaginationShown == Rendered /\ ~loading /\ Len(filteredData.value) > 0

\* Pagination onPageChange={setCurrentPage}: one of the pages it lists.
SetCurrentPage(p) ==
    /\ page = "certificates"
    /\ PaginationShown
    /\ p \in 1..totalPages
    /\ currentPage' = p
    /\ UNCHANGED <<storage, page, pc, pending, q, collVars, loadVars,
                   searchVars, filterVars, sortDirection, pageSize, editVars,
                   displayCount, expandedRows, viewMode>>
    /\ Render

PageSizes == (1..MaxPageSize) \cup {InitialPageSize}

\* Pagination onPageSizeChange={setPageSize}
SetPageSize(size) ==
    /\ page = "certificates"
    /\ PaginationShown
    /\ size \in PageSizes
    /\ pageSize' = size
    /\ UNCHANGED <<storage, page, pc, pending, q, collVars, loadVars,
                   searchVars, filterVars, sortDirection, editVars,
                   displayCount, expandedRows, viewMode>>
    /\ currentPage' = PageResetEffect(currentPage)
    /\ Render

\* handleEdit(cert), from the edit button of a visible row.
handleEdit(row) ==
    /\ page = "certificates"
    /\ Rendered
    /\ ~loading
    /\ row \in 1..Len(paginatedData)
    /\ editingCert' = <<paginatedData[row]>>
    /\ editName' = paginatedData[row].name
    /\ UNCHANGED <<storage, page, pc, pending, q, collVars, loadVars,
                   searchVars, filterVars, sortDirection, pageVars,
                   displayCount, expandedRows, viewMode>>
    /\ Render

EditTexts == {<<>>, <<" ">>, <<" ", "a", " ">>}

\* Input onChange={(e) => setEditName(e.target.value)} in the drawer.
SetEditName(text) ==
    /\ page = "certificates"
    /\ Rendered
    /\ editingCert # <<>>
    /\ text \in EditTexts
    /\ editName' = text
    /\ UNCHANGED <<storage, page, pc, pending, q, collVars, loadVars,
                   searchVars, filterVars, sortDirection, pageVars,
                   editingCert, displayCount, expandedRows, viewMode>>
    /\ Render

\* certificates.filter((c) => c.id !== editingCert.id): the record is dropped.
RenameCertificateDropping(certs, id, name) ==
    LET Other(c) == c.id # id
    IN  SelectSeq(certs, Other)

\* certificates.map((c, i) => i === row ? {...c, name} : c): the record is
\* taken by its position.
RenameCertificateAtPosition(certs, id, name) ==
    [i \in 1..Len(certs) |->
        IF i = id THEN [certs[i] EXCEPT !.name = name] ELSE certs[i]]

\* certificates.map((c) => c.id === editingCert.id ? {...c, name} : c)
RenameCertificate(certs, id, name) ==
    [i \in 1..Len(certs) |->
        IF certs[i].id = id THEN [certs[i] EXCEPT !.name = name] ELSE certs[i]]

\* if (editingCert && editName): the name is not trimmed for the test.
ValidNameUntrimmed(name) == name # <<>>

\* if (editingCert && editName.trim())
ValidName(name) == Trim(name) # <<>>

\* handleSaveEdit, from the Save Changes button of the drawer.
handleSaveEdit ==
    /\ page = "certificates"
    /\ Rendered
    /\ editingCert # <<>>
    /\ IF ValidName(editName)
       THEN LET updated == RenameCertificate(certificates, editingCert[1].id,
                                             Trim(editName))
            IN  /\ certificates' = updated
                /\ editingCert' = <<>>
                /\ storage' = PersistEffect(storage, updated)
       ELSE UNCHANGED <<certificates, editingCert, storage>>
    /\ UNCHANGED <<page, pc, pending, q, sshKeys, keys, logs, loadVars,
                   searchVars, filterVars, sortDirection, pageVars, editName,
                   displayCount, expandedRows, viewMode>>
    /\ Render

\* Drawer onClose / Cancel
CloseDrawer ==
    /\ page = "certificates"
    /\ Rendered
    /\ editingCert # <<>>
    /\ editingCert' = <<>>
    /\ UNCHANGED <<storage, page, pc, pending, q, collVars, loadVars,
                   searchVars, filterVars, sortDirection, pageVars, editName,
                   displayCount, expandedRows, viewMode>>
    /\ Render

(***************************************************************************)
(* Audit logs: filters and incremental reveal.                             *)
(***************************************************************************)
\* The options of the action filter: 'all' and the types of the collection.
actionTypes == {"all"} \cup {logs[i].actionType : i \in 1..Len(logs)}

\* A reset effect that also collapses the rows.
ExpandedCleared(set) == {}

\* The reset effect sets the visible count only: expandedRows is kept.
ExpandedAfterReset(set) == set

\* FilterSelect onChange={setActionTypeFilter}
SetActionTypeFilter(value) ==
    /\ page = "audit-logs"
    /\ Rendered
    /\ value \in actionTypes
    /\ actionTypeFilter' = value
    /\ displayCount' = DisplayResetEffect(value # actionTypeFilter, displayCount)
    /\ expandedRows' = IF value # actionTypeFilter
                       THEN ExpandedAfterReset(expandedRows) ELSE expandedRows
    /\ UNCHANGED <<storage, page, pc, pending, q, collVars, loadVars,
                   searchVars, domainFilter, trustFilter, dateRange,
                   sortDirection, pageVars, editVars, viewMode>>
    /\ Render

\* The ranges the calendar reports: a first day, then a last day not before it.
DateRanges ==
    {[from |-> <<d>>, to |-> <<>>] : d \in 1..MaxDay}
        \cup {r \in {[from |-> <<d>>, to |-> <<e>>] :
                           d \in 1..MaxDay, e \in 1..MaxDay} :
                 r.from[1] <= r.to[1]}

\* Calendar onSelect with another range, or the Clear dates button (range = {}).
SetDateRange(range) ==
    /\ page = "audit-logs"
    /\ Rendered
    /\ range \in DateRanges \cup {NoRange}
    /\ range # dateRange
    /\ dateRange' = range
    /\ displayCount' = DisplayResetEffect(TRUE, displayCount)
    /\ expandedRows' = ExpandedAfterReset(expandedRows)
    /\ UNCHANGED <<storage, page, pc, pending, q, collVars, loadVars,
                   searchVars, domainFilter, trustFilter, actionTypeFilter,
                   sortDirection, pageVars, editVars, viewMode>>
    /\ Render

\* setDisplayCount((prev) => prev + PAGE_SIZE)
RevealMoreUncapped(prev, length) == prev + PAGE_SIZE

\* setDisplayCount((prev) => Math.min(prev + PAGE_SIZE, filteredData.length))
RevealMore(prev, length) == Min(prev + PAGE_SIZE, length)

\* handleObserver(entries): the IntersectionObserver reports the sentinel.
handleObserver(isIntersecting) ==
    /\ page = "audit-logs"
    /\ Rendered
    /\ displayCount' =
          IF isIntersecting /\ hasMore /\ ~loading
          THEN RevealMore(displayCount, Len(filteredData.value))
          ELSE displayCount
    /\ UNCHANGED <<storage, page, pc, pending, q, collVars, loadVars,
                   searchVars, filterVars, sortDirection, pageVars, editVars,
                   expandedRows, viewMode>>
    /\ Render

(***************************************************************************)
(* Row expansion (SSH keys, audit logs) and the code-signing view mode.    *)
(***************************************************************************)
\* The identifiers of the rows the table shows.
VisibleIds ==
    IF loading THEN {}
    ELSE IF page = "audit-logs"
         THEN {displayedData[i].id : i \in 1..Len(displayedData)}
    ELSE {filteredData.value[i].id : i \in 1..Len(filteredData.value)}

\* An updater that only adds.
ToggleAdd(set, id) == set \cup {id}

\* setExpandedRows((prev) => { next = new Set(prev); has ? delete : add })
Toggle(set, id) == IF id \in set THEN set \ {id} ELSE set \cup {id}

\* toggleRow(id), from a click on a visible row.
toggleRow(id) ==
    /\ page \in {"ssh-keys", "audit-logs"}
    /\ Rendered
    /\ id \in VisibleIds
    /\ id \in expandedRows \/ Cardinality(expandedRows) < MaxExpanded
    /\ expandedRows' = Toggle(expandedRows, id)
    /\ UNCHANGED <<storage, page, pc, pending, q, collVars, loadVars,
                   searchVars, filterVars, sortDirection, pageVars, editVars,
                   displayCount, viewMode>>
    /\ Render

ViewModes == {"table", "grid"}

\* handleViewModeChange(mode)
handleViewModeChange(mode) ==
    /\ page = "code-signing"
    /\ Rendered
    /\ mode \in ViewModes
    /\ viewMode' = mode
    /\ storage' = SetItem(storage, VIEW_MODE_KEY, StringText(mode))
    /\ UNCHANGED <<page, pc, pending, q, collVars, loadVars,
                   searchVars, filterVars, sortDirection, pageVars, editVars,
                   displayCount, expandedRows>>
    /\ Render

(***************************************************************************)
(* The dashboard.                                                          *)
(***************************************************************************)
Next ==
    \/ Activate
    \/ Remount
    \/ Reload
    \/ LoadResolve
    \/ \E text \in SearchTexts : SetSearchQuery(text)
    \/ DebounceFire
    \/ \E value \in domains : SetDomainFilter(value)
    \/ \E value \in trustOptions : SetTrustFilter(value)
    \/ ToggleSort
    \/ \E p \in 1..totalPages : SetCurrentPage(p)
    \/ \E size \in PageSizes : SetPageSize(size)
    \/ \E row \in 1..Len(paginatedData) : handleEdit(row)
    \/ \E text \in EditTexts : SetEditName(text)
    \/ handleSaveEdit
    \/ CloseDrawer
    \/ \E value \in actionTypes : SetActionTypeFilter(value)
    \/ \E range \in DateRanges \cup {NoRange} : SetDateRange(range)
    \/ \E isIntersecting \in BOOLEAN : handleObserver(isIntersecting)
    \/ \E id \in VisibleIds : toggleRow(id)
    \/ \E mode \in ViewModes : handleViewModeChange(mode)

Spec == Init /\ [][Next]_vars

\* One page of the dashboard at a time.
InitCertificates == Init /\ page = "certificates"
InitSSHKeys == Init /\ page = "ssh-keys"
InitCodeSigning == Init /\ page = "code-signing"
InitAuditLogs == Init /\ page = "audit-logs"

NextCertificates ==
    \/ Activate
    \/ Remount
    \/ Reload
    \/ LoadResolve
    \/ \E text \in SearchTexts : SetSearchQuery(text)
    \/ DebounceFire
    \/ \E value \in domains : SetDomainFilter(value)
    \/ ToggleSort
    \/ \E p \in 1..totalPages : SetCurrentPage(p)
    \/ \E size \in PageSizes : SetPageSize(size)
    \/ \E row \in 1..Len(paginatedData) : handleEdit(row)
    \/ \E text \in EditTexts : SetEditName(text)
    \/ handleSaveEdit
    \/ CloseDrawer

NextAuditLogs ==
    \/ Activate
    \/ Remount
    \/ Reload
    \/ LoadResolve
    \/ \E value \in actionTypes : SetActionTypeFilter(value)
    \/ \E range \in DateRanges \cup {NoRange} : SetDateRange(range)
    \/ \E isIntersecting \in BOOLEAN : handleObserver(isIntersecting)
    \/ \E id \in VisibleIds : toggleRow(id)

SpecCertificates == InitCertificates /\ [][NextCertificates]_vars
SpecAuditLogs == InitAuditLogs /\ [][NextAuditLogs]_vars

(***************************************************************************)
(* Single evaluations of the pure functions: q holds the inputs, then the  *)
(* inputs and the result.                                                  *)
(***************************************************************************)
\* The sequences over S of length at most n.
SeqsUpTo(S, n) == UNION {[1..k -> S] : k \in 0..n}

CertificateValues ==
    [name : {<<"A", "b">>, <<"B">>}, domain : {<<"x">>, <<"X">>},
     issuer : {<<"c">>}, status : {"active"}, expiryDate : {1, 2}]

SSHKeyValues ==
    [owner : {<<"A", "b">>, <<"B">>}, fingerprint : {<<"x">>},
     trustLevel : {"high", "medium", "low"}]

CodeSigningKeyValues ==
    [alias : {<<"A", "b">>, <<"B">>}, algorithm : {<<"x">>, <<"a", "B">>}]

QueryTexts == {<<>>, <<"a">>, <<"A", "B">>, <<"X">>}

\* The records get their position as identifier.
CertificateLists ==
    {[i \in 1..Len(s) |->
         [id |-> i, name |-> s[i].name, domain |-> s[i].domain,
          issuer |-> s[i].issuer, status |-> s[i].status,
          expiryDate |-> s[i].expiryDate]] : s \in SeqsUpTo(CertificateValues, MaxLen)}

SSHKeyLists ==
    {[i \in 1..Len(s) |->
         [id |-> i, owner |-> s[i].owner, fingerprint |-> s[i].fingerprint,
          trustLevel |-> s[i].trustLevel]] : s \in SeqsUpTo(SSHKeyValues, MaxLen)}

CodeSigningKeyLists ==
    {[i \in 1..Len(s) |->
         [id |-> i, alias |-> s[i].alias, algorithm |-> s[i].algorithm]] :
        s \in SeqsUpTo(CodeSigningKeyValues, MaxLen)}

\* Logs at the hours before, at and after the midnights of days 1 and 2.
AuditLogValues ==
    [timestamp : {23, 24, 48, 49}, actionType : {ActionTypes[1], ActionTypes[2]}]

AuditLogLists ==
    {[i \in 1..Len(s) |->
         [id |-> i, timestamp |-> s[i].timestamp,
          actionType |-> s[i].actionType]] : s \in SeqsUpTo(AuditLogValues, MaxLen)}

\* dateRange values: each bound set or undefined.
QueryRanges ==
    {NoRange} \cup DateRanges
        \cup {[from |-> <<>>, to |-> <<e>>] : e \in 1..MaxDay}

NotEvaluated == <<>>

InitQuery ==
    /\ page = "certificates"
    /\ storage = [k \in StorageKeys |-> NullItem]
    /\ IdleComponent
    /\ \/ \E data \in CertificateLists, search \in QueryTexts,
             direction \in {"asc", "desc"} :
             \E filter \in {All} \cup {data[i].domain : i \in 1..Len(data)} :
                q = [fn |-> "certificates", data |-> data, search |-> search,
                     filter |-> filter, direction |-> direction,
                     out |-> NotEvaluated]
       \/ \E data \in SSHKeyLists, search \in QueryTexts,
             direction \in {"asc", "desc"}, filter \in trustOptions :
                q = [fn |-> "ssh-keys", data |-> data, search |-> search,
                     filter |-> filter, direction |-> direction,
                     out |-> NotEvaluated]
       \/ \E data \in CodeSigningKeyLists, search \in QueryTexts :
                q = [fn |-> "code-signing", data |-> data, search |-> search,
                     out |-> NotEvaluated]
       \/ \E data \in AuditLogLists, range \in QueryRanges,
             filter \in {"all", ActionTypes[1], ActionTypes[2]} :
                q = [fn |-> "audit-logs", data |-> data, filter |-> filter,
                     range |-> range, out |-> NotEvaluated]
       \/ \E set \in SUBSET (1..MaxIds), id \in 1..MaxIds :
                q = [fn |-> "toggle", set |-> set, id |-> id,
                     out |-> NotEvaluated]
       \/ \E n \in 0..MaxItems, size \in 1..MaxSliceSize :
             \E current \in 1..(TotalPages(n, size) + 1) :
                q = [fn |-> "paginate", data |-> [i \in 1..n |-> i],
                     pageSize |-> size, currentPage |-> current,
                     out |-> NotEvaluated]

EvalCertificates ==
    /\ q.fn = "certificates"
    /\ q.out = NotEvaluated
    /\ q' = [q EXCEPT !.out = <<CertificatesFilteredData(q.data, q.search,
                                                          q.filter, q.direction)>>]
    /\ UNCHANGED <<storage, page, pc, pending, collVars, loadVars, searchVars,
                   filterVars, sortDirection, pageVars, editVars, displayCount,
                   expandedRows, viewMode, filteredData>>

EvalSSHKeys ==
    /\ q.fn = "ssh-keys"
    /\ q.out = NotEvaluated
    /\ q' = [q EXCEPT !.out = <<SSHKeysFilteredData(q.data, q.search, q.filter,
                                                     q.direction)>>]
    /\ UNCHANGED <<storage, page, pc, pending, collVars, loadVars, searchVars,
                   filterVars, sortDirection, pageVars, editVars, displayCount,
                   expandedRows, viewMode, filteredData>>

EvalCodeSigning ==
    /\ q.fn = "code-signing"
    /\ q.out = NotEvaluated
    /\ q' = [q EXCEPT !.out = <<CodeSigningFilteredData(q.data, q.search)>>]
    /\ UNCHANGED <<storage, page, pc, pending, collVars, loadVars, searchVars,
                   filterVars, sortDirection, pageVars, editVars, displayCount,
                   expandedRows, viewMode, filteredData>>

EvalPagination ==
    /\ q.fn = "paginate"
    /\ q.out = NotEvaluated
    /\ q' = [q EXCEPT !.out =
                <<[totalPages |-> TotalPages(Len(q.data), q.pageSize),
                   paginatedData |-> PaginatedData(q.data, q.currentPage,
                                                   q.pageSize)]>>]
    /\ UNCHANGED <<storage, page, pc, pending, collVars, loadVars, searchVars,
                   filterVars, sortDirection, pageVars, editVars, displayCount,
                   expandedRows, viewMode, filteredData>>

\* The updater of toggleRow, applied once and applied again to its result.
EvalToggle ==
    /\ q.fn = "toggle"
    /\ q.out = NotEvaluated
    /\ q' = [q EXCEPT !.out =
                <<[once |-> Toggle(q.set, q.id),
                   twice |-> Toggle(Toggle(q.set, q.id), q.id)]>>]
    /\ UNCHANGED <<storage, page, pc, pending, collVars, loadVars, searchVars,
                   filterVars, sortDirection, pageVars, editVars, displayCount,
                   expandedRows, viewMode, filteredData>>

EvalAuditLogs ==
    /\ q.fn = "audit-logs"
    /\ q.out = NotEvaluated
    /\ q' = [q EXCEPT !.out = <<AuditLogsFilteredData(q.data, q.filter,
                                                       q.range)>>]
    /\ UNCHANGED <<storage, page, pc, pending, collVars, loadVars, searchVars,
                   filterVars, sortDirection, pageVars, editVars, displayCount,
                   expandedRows, viewMode, filteredData>>

NextQuery ==
    \/ EvalAuditLogs
    \/ EvalToggle
    \/ EvalCertificates
    \/ EvalSSHKeys
    \/ EvalCodeSigning
    \/ EvalPagination

SpecQuery == InitQuery /\ [][NextQuery]_vars

(***************************************************************************)
(* Properties.                                                             *)
(***************************************************************************)
Max(a, b) == IF a > b THEN a ELSE b

\* Two characters that differ at most in case.
SameLetter(c, d) == c = d \/ {c, d} \in {{"a", "A"}, {"b", "B"}, {"x", "X"}}

\* sub occurs in s, whatever the case of the letters.
OccursIn(sub, s) ==
    \E i \in 0..(Len(s) - Len(sub)) :
        \A k \in 1..Len(sub) : SameLetter(s[i + k], sub[k])

SearchFields(fn, r) ==
    CASE fn = "certificates" -> {r.name, r.domain, r.issuer}
      [] fn = "ssh-keys" -> {r.owner, r.fingerprint}
      [] OTHER -> {r.alias, r.algorithm}

MatchesQuery(r) ==
    q.search = <<>> \/ \E field \in SearchFields(q.fn, r) : OccursIn(q.search, field)

MatchesCategory(r) ==
    CASE q.fn = "certificates" -> q.filter = All \/ r.domain = q.filter
      [] q.fn = "ssh-keys" -> q.filter = "all" \/ r.trustLevel = q.filter
      [] OTHER -> TRUE

PipelineEvaluated(fns) == q.fn \in fns /\ q.out # NotEvaluated

\* C1: the result of the certificates, SSH-keys and code-signing pipeline
\* holds a record of the collection if and only if the search text is empty or
\* occurs, case-insensitively, in one of the page's search fields, and the
\* category filter is 'all' or equals the record's filter field exactly. The
\* result holds nothing else and no record twice.
C1_FilterIff ==
    PipelineEvaluated({"certificates", "ssh-keys", "code-signing"}) =>
        LET out == q.out[1]
            kept == {i \in 1..Len(q.data) :
                        MatchesQuery(q.data[i]) /\ MatchesCategory(q.data[i])}
        IN  /\ \A i \in 1..Len(q.data) :
                  (\E j \in 1..Len(out) : out[j] = q.data[i]) <=> i \in kept
            /\ \A j \in 1..Len(out) : \E i \in kept : out[j] = q.data[i]
            /\ Len(out) = Cardinality(kept)

\* The search "AB" finds the name "Ab", and the filter "x" drops the record of
\* domain "X" that the search also finds.
C1_Witness ==
    /\ PipelineEvaluated({"certificates"})
    /\ q.search = <<"A", "B">>
    /\ q.filter = <<"x">>
    /\ Len(q.data) = 3
    /\ \A i \in 1..3 : q.data[i].name = <<"A", "b">>
    /\ q.data[2].domain = <<"X">>
    /\ Len(q.out[1]) = 2

\* high > medium > low
TrustRank(level) ==
    CASE level = "low" -> 0
      [] level = "medium" -> 1
      [] OTHER -> 2

SortKey(r) ==
    IF q.fn = "certificates" THEN r.expiryDate ELSE TrustRank(r.trustLevel)

\* C2: the result of the certificates and SSH-keys pipeline is ordered by the
\* page's key (expiry date; trust rank) in the selected direction: keys of
\* adjacent records do not decrease when ascending and do not increase when
\* descending; records of equal key keep the order they have in the
\* collection, in both directions.
C2_SortedStable ==
    PipelineEvaluated({"certificates", "ssh-keys"}) =>
        LET out == q.out[1]
        IN  /\ \A k \in 1..(Len(out) - 1) :
                  IF q.direction = "asc"
                  THEN SortKey(out[k]) <= SortKey(out[k + 1])
                  ELSE SortKey(out[k]) >= SortKey(out[k + 1])
            /\ \A k, m \in 1..Len(out) :
                  (k < m /\ SortKey(out[k]) = SortKey(out[m]))
                      => out[k].id < out[m].id

\* Descending: the last record comes first, the two of equal date follow in
\* the order of the collection.
C2_Witness ==
    /\ PipelineEvaluated({"certificates"})
    /\ q.direction = "desc"
    /\ Len(q.out[1]) = 3
    /\ q.out[1][1].id = 3
    /\ q.out[1][2].id = 1
    /\ q.out[1][2].expiryDate = q.out[1][3].expiryDate

\* C3: for a filtered collection of N records and page size P, totalPages is
\* ceil(N / P); page k of 1..totalPages shows exactly the records
\* (k-1)*P+1 .. min(k*P, N), every record is on exactly one page, and the last
\* page holds N mod P records, or P when N mod P = 0 and N > 0.
C3_Pagination ==
    PipelineEvaluated({"paginate"}) =>
        LET N == Len(q.data)
            P == q.pageSize
            k == q.currentPage
            total == q.out[1].totalPages
            shown == q.out[1].paginatedData
            First(j) == (j - 1) * P + 1
            Last(j) == IF j * P < N THEN j * P ELSE N
        IN  /\ total * P >= N
            /\ total > 0 => (total - 1) * P < N
            /\ total >= 0
            /\ k \in 1..total =>
                  shown = [i \in 1..(Last(k) - First(k) + 1) |->
                              q.data[First(k) + i - 1]]
            /\ \A i \in 1..N :
                  Cardinality({j \in 1..total : First(j) <= i /\ i <= Last(j)}) = 1
            /\ (k = total /\ N > 0) =>
                  Len(shown) = IF N % P = 0 THEN P ELSE N % P

\* 12 records, page size 5: page 3 of 3 shows records 11 and 12.
C3_Witness ==
    /\ PipelineEvaluated({"paginate"})
    /\ Len(q.data) = 12
    /\ q.pageSize = 5
    /\ q.currentPage = 3
    /\ q.out[1].totalPages = 3
    /\ q.out[1].paginatedData = <<11, 12>>

\* C4: on the certificates page, a step that changes the applied search text,
\* the domain filter or the page size leaves the page index at 1, whatever
\* page was shown before.
C4_PageReset ==
    [][(/\ page = "certificates"
        /\ \/ debouncedSearch' # debouncedSearch
           \/ domainFilter' # domainFilter
           \/ pageSize' # pageSize)
          => currentPage' = FirstPage]_vars

\* Page 2 is shown, of one record per page, and a domain can be selected.
C4_Witness ==
    /\ page = "certificates"
    /\ currentPage > FirstPage
    /\ pageSize = 1
    /\ domainFilter = All
    /\ \E value \in domains \ {All} : ENABLED SetDomainFilter(value)

\* A new component instance is mounted.
Mounts == Activate \/ Remount \/ Reload

Ready == pc = "mounted" /\ ~loading /\ error = NoError

\* C5 as stated, for the ready page: the visible count never exceeds the size
\* of the current filtered collection.
C5_CountWithinFiltered ==
    (page = "audit-logs" /\ Ready) => displayCount <= Len(ComputeFilteredData)

\* C5: on the audit-logs page the number of rows shown never exceeds the size
\* of the current filtered collection and the visible count never exceeds the
\* larger of the page size and that size; in a step of a mounted instance the
\* visible count does not decrease unless the action-type filter or the date
\* range changed.
C5_Reveal ==
    /\ [](page = "audit-logs" =>
            /\ Len(displayedData) <= Len(ComputeFilteredData)
            /\ displayCount <= Max(PAGE_SIZE, Len(ComputeFilteredData)))
    /\ [][(/\ page = "audit-logs"
           /\ ~Mounts
           /\ actionTypeFilter' = actionTypeFilter
           /\ dateRange' = dateRange)
             => displayCount' >= displayCount]_vars

\* A date range leaves fewer records than the visible count, which the change
\* of the range has set back to the page size.
C5_Witness ==
    /\ page = "audit-logs"
    /\ Ready
    /\ dateRange # NoRange
    /\ filteredData.value # <<>>
    /\ Len(filteredData.value) < displayCount
    /\ displayCount = PAGE_SIZE

\* C6: the visible count of a new instance is the page size (8); a
\* sentinel-visible notification received while the page is not loading and
\* the count is below the filtered size N sets it to min(count + 8, N), which
\* is more than before and at most N; received when the count has reached N,
\* or while loading, it leaves the count unchanged.
C6_RevealGrowth ==
    [][/\ (page = "audit-logs" /\ Mounts) => displayCount' = 8
       /\ handleObserver(TRUE) =>
            LET N == Len(ComputeFilteredData)
            IN  IF ~loading /\ displayCount < N
                THEN /\ displayCount' = (IF displayCount + 8 < N
                                         THEN displayCount + 8 ELSE N)
                     /\ displayCount' > displayCount
                     /\ displayCount' <= N
                ELSE displayCount' = displayCount]_vars

\* Two notifications added a page each, a third the rest: all records of the
\* collection are visible.
C6_Witness ==
    /\ page = "audit-logs"
    /\ Ready
    /\ displayCount > 2 * PAGE_SIZE
    /\ displayCount = Len(filteredData.value)

\* C7: the rows a ready page shows are a slice of the pipeline result of the
\* current collection and the currently applied search, filter and sort: the
\* current page of it for certificates, a prefix of it for audit logs, all of
\* it for the other pages.
C7_VisibleRowsCurrent ==
    Ready =>
        /\ filteredData.value = ComputeFilteredData
        /\ page = "certificates" =>
              paginatedData = PaginatedData(ComputeFilteredData, currentPage,
                                            pageSize)
        /\ page = "audit-logs" =>
              displayedData = DisplayedData(ComputeFilteredData, displayCount)

\* The search "AB" found the first certificate by its name; the edit of that
\* name has taken the certificate out of the result.
C7_Witness ==
    /\ page = "certificates"
    /\ Ready
    /\ debouncedSearch = <<"A", "B">>
    /\ Len(certificates) = NumCerts
    /\ certificates[1].id = 1
    /\ certificates[1].name = <<"a">>
    /\ paginatedData = <<>>

\* The load of the mounted instance ends.
LiveLoadEnds == LoadResolve /\ Len(pending) = 1

Slot == storage[CACHE_KEY(page)]

\* C8: when the load of the mounted instance read a parseable snapshot from
\* the page's slot, the collection after the load is that snapshot and the
\* slot still holds what was read; when it read no snapshot, the collection
\* is the bundled dataset and the slot holds the serialized bundled dataset.
C8_Loader ==
    [][LiveLoadEnds =>
         LET cached == Head(pending)
         IN  /\ (cached.present /\ Parse(cached.text) # <<>>) =>
                   /\ Collection' = Parse(cached.text)[1]
                   /\ Slot' = cached
                   /\ Ready'
             /\ ~cached.present =>
                   /\ Collection' = BundledData(page)
                   /\ Slot' = Item(Stringify(BundledData(page)))
                   /\ Ready']_vars

\* The page is ready with the collection of a snapshot that is not the
\* bundled dataset.
C8_Witness ==
    /\ Ready
    /\ pending = <<>>
    /\ Collection = Reverse(Tail(BundledData(page)))
    /\ Slot = Item(Stringify(Collection))

Phase ==
    IF pc = "idle" THEN "Idle"
    ELSE IF error # NoError THEN "Error"
    ELSE IF loading THEN "Loading"
    ELSE "Ready"

\* C9: a page goes Idle -> Loading -> Error or Idle -> Loading -> Ready. Error
\* and Ready are left only by a reload (a new instance), which restarts at
\* Loading; no operation of the page leaves Error, and no search, filter,
\* sort, page, page-size, reveal, expansion or edit operation leaves Ready.
C9_StateMachine ==
    [][/\ Phase = "Idle" => Phase' \in {"Idle", "Loading"}
       /\ Phase = "Loading" => Phase' \in {"Loading", "Error", "Ready"}
       /\ (Phase \in {"Error", "Ready"} /\ Phase' # Phase) =>
             (Phase' = "Loading" /\ (Reload \/ Remount))
       /\ (Phase \in {"Error", "Ready"} /\ ~(Reload \/ Remount)) =>
             (Phase' = Phase /\ loading' = loading /\ error' = error)]_vars

\* A ready certificates page after a sort, a filter and a page-size change and
\* the edit of a name.
C9_Witness ==
    /\ Phase = "Ready"
    /\ page = "certificates"
    /\ sortDirection = "desc"
    /\ domainFilter # All
    /\ pageSize # InitialPageSize
    /\ \E i \in 1..Len(certificates) :
          certificates[i].name # certificatesData[certificates[i].id].name

NextActivation ==
    \/ Activate
    \/ LoadResolve
    \/ \E text \in SearchTexts : SetSearchQuery(text)
    \/ DebounceFire
    \/ \E value \in domains : SetDomainFilter(value)
    \/ \E value \in trustOptions : SetTrustFilter(value)
    \/ ToggleSort
    \/ \E p \in 1..totalPages : SetCurrentPage(p)
    \/ \E size \in PageSizes : SetPageSize(size)
    \/ \E row \in 1..Len(paginatedData) : handleEdit(row)
    \/ \E text \in EditTexts : SetEditName(text)
    \/ handleSaveEdit
    \/ CloseDrawer
    \/ \E value \in actionTypes : SetActionTypeFilter(value)
    \/ \E range \in DateRanges \cup {NoRange} : SetDateRange(range)
    \/ \E isIntersecting \in BOOLEAN : handleObserver(isIntersecting)
    \/ \E id \in VisibleIds : toggleRow(id)
    \/ \E mode \in ViewModes : handleViewModeChange(mode)

\* The 600 ms timer of a load fires: weak fairness of LoadResolve, which is
\* enabled exactly when a load is pending and always changes pending.
TimerFairness == []<>(pending = <<>>) \/ []<><<LoadResolve>>_vars

SpecActivation == Init /\ [][NextActivation]_vars /\ TimerFairness

\* C11: a mounted page is in Loading exactly as long as the continuation of
\* its load has not run; the step in which the continuation runs clears the
\* loading flag and leaves the page in Error or in Ready, whatever the slot
\* held; and the continuation does run: Loading leads to Error or Ready.
C11_LeavesLoading ==
    /\ [](pc = "mounted" => ((Phase = "Loading") <=> (pending # <<>>)))
    /\ [][LiveLoadEnds =>
            (~loading' /\ Phase' \in {"Error", "Ready"})]_vars
    /\ (Phase = "Loading") ~> (~loading /\ Phase \in {"Error", "Ready"})

\* The code-signing page after the continuation has run on a text that does
\* not parse: in Error, the loading flag cleared.
C11_Witness ==
    /\ page = "code-signing"
    /\ Phase = "Error"
    /\ ~loading
    /\ pending = <<>>

\* C12: a ready page has persisted its collection (the slot holds its
\* serialisation); a load started from there reads that snapshot, and the
\* load of a persisted snapshot ends with the collection the snapshot was
\* written from and with the slot as it was: loading again, any number of
\* times, gives the same collection and the same snapshot.
C12_LoadIdempotent ==
    /\ [](Ready => Slot = Item(Stringify(Collection)))
    /\ [][/\ (Ready /\ (Reload \/ Remount)) =>
                pending' = <<Item(Stringify(Collection))>>
          /\ (LiveLoadEnds /\ Truthy(Head(pending))
                /\ Parse(Head(pending).text) # <<>>) =>
                /\ Item(Stringify(Collection')) = Head(pending)
                /\ Slot' = Slot
                /\ Slot' = Head(pending)]_vars

\* A reload of the certificates page is under way that has read the snapshot
\* an earlier load and an edit have persisted.
C12_Witness ==
    /\ page = "certificates"
    /\ Phase = "Loading"
    /\ pending = <<Slot>>
    /\ Parse(Slot.text) # <<>>
    /\ \E i \in 1..Len(Parse(Slot.text)[1]) :
          LET c == Parse(Slot.text)[1][i]
          IN  c.name # certificatesData[c.id].name

\* s without the spaces at its two ends.
IsTrimOf(t, s) ==
    \E i \in 0..(Len(s) - Len(t)) :
        /\ SubSeq(s, i + 1, i + Len(t)) = t
        /\ \A k \in 1..Len(s) : (k <= i \/ k > i + Len(t)) => s[k] = " "
        /\ t # <<>> => (t[1] # " " /\ t[Len(t)] # " ")

Blank(s) == \A k \in 1..Len(s) : s[k] = " "

\* C13: confirming an edit with a name that is not blank replaces, in the
\* whole collection, the name of exactly the record that has the identifier
\* of the edited record by the trimmed name; the other fields of that record,
\* every other record, and the length and order of the collection stay as
\* they are, whatever search, filter, sort and page are active.
C13_EditPath ==
    [][(handleSaveEdit /\ editingCert # <<>> /\ ~Blank(editName)) =>
         /\ Len(certificates') = Len(certificates)
         /\ \A i \in 1..Len(certificates) :
               LET old == certificates[i]
                   new == certificates'[i]
               IN  /\ new.id = old.id
                   /\ new.domain = old.domain
                   /\ new.issuer = old.issuer
                   /\ new.status = old.status
                   /\ new.expiryDate = old.expiryDate
                   /\ DOMAIN new = DOMAIN old
                   /\ IF old.id = editingCert[1].id
                      THEN IsTrimOf(new.name, editName)
                      ELSE new.name = old.name
         /\ \E i \in 1..Len(certificates) :
               certificates[i].id = editingCert[1].id]_vars

\* Under the search "b", descending order and one record per page, the record
\* of page 2 has been renamed to "a"; the collection is still whole.
C13_Witness ==
    /\ page = "certificates"
    /\ Ready
    /\ debouncedSearch = <<"b">>
    /\ sortDirection = "desc"
    /\ pageSize = 1
    /\ currentPage = 2
    /\ editingCert = <<>>
    /\ Len(certificates) = NumCerts
    /\ \E i \in 1..Len(certificates) :
          /\ certificates[i].name = <<"a">>

\* An edit is confirmed: handleSaveEdit with the editor open on a name that
\* is not blank.
EditConfirmed == handleSaveEdit /\ editingCert # <<>> /\ ~Blank(editName)

\* C14: after every confirmed edit the certificates slot holds the
\* serialisation of the whole updated collection, all records of it and not
\* the filtered view or the page shown, so that the text a reload reads parses
\* to the collection with the edited name.
C14_PersistedAfterEdit ==
    [][EditConfirmed =>
         /\ Slot' = Item(Stringify(certificates'))
         /\ Parse(Slot'.text) = <<certificates'>>
         /\ \E i \in 1..Len(certificates') :
               /\ certificates'[i].id = editingCert[1].id
               /\ Parse(Slot'.text)[1][i].name = certificates'[i].name
               /\ IsTrimOf(certificates'[i].name, editName)]_vars

\* A record has been renamed under a domain filter that shows fewer records
\* than the collection holds; the slot holds the whole collection.
C14_Witness ==
    /\ page = "certificates"
    /\ Ready
    /\ domainFilter # All
    /\ editingCert = <<>>
    /\ Len(filteredData.value) < Len(certificates)
    /\ \E i \in 1..Len(certificates) :
          /\ certificates[i].name = <<"a">>
          /\ certificates[i].domain = domainFilter
    /\ Slot = Item(Stringify(certificates))

\* C15: confirming an edit whose name is empty or only spaces commits
\* nothing: the collection and the slot are as before, the editor stays as it
\* is, and the page stays Ready with no error.
C15_ValidationRejection ==
    [][(handleSaveEdit /\ editingCert # <<>> /\ Blank(editName)) =>
         /\ certificates' = certificates
         /\ storage' = storage
         /\ filteredData' = filteredData
         /\ Phase = "Ready"
         /\ Phase' = "Ready"
         /\ error' = NoError
         /\ ~loading']_vars

\* The editor is open on a name of one space, on a ready page.
C15_Witness ==
    /\ page = "certificates"
    /\ Ready
    /\ editingCert # <<>>
    /\ editName = <<" ">>

\* C16: toggling an identifier flips its membership in the expanded set and
\* changes the membership of no other identifier; toggling it a second time
\* gives back the set as it was, for every set and identifier.
C16_ToggleInvolution ==
    PipelineEvaluated({"toggle"}) =>
        LET once == q.out[1].once
            twice == q.out[1].twice
        IN  /\ (q.id \in once) <=> (q.id \notin q.set)
            /\ \A j \in (q.set \cup once \cup (1..MaxIds)) \ {q.id} :
                  (j \in once) <=> (j \in q.set)
            /\ twice = q.set

\* An expanded row among two is collapsed, and expanded again by the second
\* toggle.
C16_Witness ==
    /\ PipelineEvaluated({"toggle"})
    /\ Cardinality(q.set) = 2
    /\ q.id \in q.set
    /\ Cardinality(q.out[1].once) = 1
    /\ q.out[1].twice = q.set

\* C17: the expanded set is changed only by toggleRow, which writes nothing
\* to the storage: every other step of a mounted instance (search, filter,
\* date range, sort, reveal, load) leaves it as it is, so the rows that leave
\* the table and come back are expanded as before; a new instance (reload,
\* remount) starts with the empty set.
C17_ExpandedFrame ==
    [][/\ (expandedRows' # expandedRows /\ ~Mounts) =>
             /\ \E id \in VisibleIds : toggleRow(id)
             /\ storage' = storage
       /\ Mounts => expandedRows' = {}]_vars

\* A row of the audit log is expanded and the filters have taken it out of
\* the table.
C17_Witness ==
    /\ page = "audit-logs"
    /\ Ready
    /\ expandedRows # {}
    /\ filteredData.value # <<>>
    /\ \A id \in expandedRows :
          \A i \in 1..Len(filteredData.value) : filteredData.value[i].id # id

Ids(collection) == {collection[i].id : i \in 1..Len(collection)}

\* C18: no step of a ready page other than a reload deletes or adds a record:
\* search, filter, sort, pagination, reveal, expansion and edit steps leave
\* the page ready and the identifiers and the number of the records of the
\* collection as they are; and on a ready page the persisted snapshot holds
\* the records of exactly these identifiers, so it loses none either.
C18_NoDeletion ==
    /\ [](Ready =>
            /\ Parse(Slot.text) # <<>>
            /\ Ids(Parse(Slot.text)[1]) = Ids(Collection)
            /\ Len(Parse(Slot.text)[1]) = Len(Collection))
    /\ [][(Phase = "Ready" /\ ~Mounts) =>
            /\ Phase' = "Ready"
            /\ Ids(Collection') = Ids(Collection)
            /\ Len(Collection') = Len(Collection)]_vars

\* Search and trust filter leave no row in the table of the SSH keys; the
\* collection and the snapshot hold all keys.
C18_Witness ==
    /\ page = "ssh-keys"
    /\ Ready
    /\ trustFilter # "all"
    /\ debouncedSearch # <<>>
    /\ filteredData.value = <<>>
    /\ Ids(sshKeys) = 1..NumKeys
    /\ Ids(Parse(Slot.text)[1]) = 1..NumKeys

\* C19: the result of the audit-log pipeline holds exactly the records whose
\* action type is the selected one (all records under "all") and whose
\* timestamp is not before the lower bound, when one is set, and not after
\* the upper bound, when one is set, both bounds included; no record twice;
\* and the timestamps never increase along the result (newest first).
C19_AuditPipeline ==
    PipelineEvaluated({"audit-logs"}) =>
        LET out == q.out[1]
            InRange(t) ==
                /\ q.range.from # <<>> => q.range.from[1] * 24 <= t
                /\ q.range.to # <<>> => t <= q.range.to[1] * 24
            kept == {i \in 1..Len(q.data) :
                        /\ q.filter = "all" \/ q.data[i].actionType = q.filter
                        /\ InRange(q.data[i].timestamp)}
        IN  /\ \A i \in 1..Len(q.data) :
                  (\E j \in 1..Len(out) : out[j] = q.data[i]) <=> i \in kept
            /\ \A j \in 1..Len(out) : \E i \in kept : out[j] = q.data[i]
            /\ Len(out) = Cardinality(kept)
            /\ \A j \in 1..(Len(out) - 1) :
                  out[j].timestamp >= out[j + 1].timestamp

\* Of three logs of the selected type, those at the two bounds of the range
\* are kept, the later one first, and the one an hour after the range is
\* dropped.
C19_Witness ==
    /\ PipelineEvaluated({"audit-logs"})
    /\ q.filter = ActionTypes[1]
    /\ q.range = [from |-> <<1>>, to |-> <<2>>]
    /\ Len(q.data) = 3
    /\ \A i \in 1..3 : q.data[i].actionType = ActionTypes[1]
    /\ q.data[1].timestamp = 24
    /\ q.data[2].timestamp = 49
    /\ q.data[3].timestamp = 48
    /\ q.out[1] = <<q.data[3], q.data[1]>>

\* C20: on the audit-logs page a step of a mounted instance that changes the
\* action-type filter or the date range, the clearing of the dates included,
\* leaves the visible count at 8 whatever it was; the filtered collection of
\* a ready page is that of the current filter and range, and a
\* sentinel-visible notification received at a count of 8 sets the count to
\* min(16, N) for N the size of that collection when N exceeds 8.
C20_FilterResetsCount ==
    /\ [][(/\ page = "audit-logs"
           /\ ~Mounts
           /\ \/ actionTypeFilter' # actionTypeFilter
              \/ dateRange' # dateRange)
             => displayCount' = 8]_vars
    /\ []((page = "audit-logs" /\ Ready) =>
            filteredData.value =
                AuditLogsFilteredData(logs, actionTypeFilter, dateRange))
    /\ [][(handleObserver(TRUE) /\ Ready /\ displayCount = 8) =>
            LET N == Len(filteredData.value)
            IN  displayCount' = IF N <= 8 THEN 8 ELSE IF N < 16 THEN N ELSE 16]_vars

\* Under a filter or range other than the initial one the visible count has
\* grown past 8 to the size of the new filtered collection, which is less
\* than two pages: the change set the count to 8 and a notification after it
\* revealed the rest.
C20_Witness ==
    /\ page = "audit-logs"
    /\ Ready
    /\ actionTypeFilter # "all" \/ dateRange # NoRange
    /\ displayCount > 8
    /\ displayCount < 16
    /\ displayCount = Len(filteredData.value)
    /\ Len(filteredData.value) < Len(logs)

\* The debounce timer, once set, fires unless the instance is replaced.
DebounceFairness ==
    []<>(~(pc = "mounted" /\ debounceTimer)) \/ []<><<DebounceFire>>_vars

SpecDebounce == Init /\ [][Next]_vars /\ DebounceFairness

\* The pipeline of the page applied to the typed text without the debounce.
ImmediateFilteredData ==
    FilteredDataOf(page, certificates, sshKeys, keys, logs, searchQuery,
                   domainFilter, trustFilter, actionTypeFilter, dateRange,
                   sortDirection)

\* C21: a step of a mounted instance that changes the applied search sets it
\* to the text typed last, so a text replaced before the timer fired is never
\* applied; whenever no debounce timer runs the applied search is the typed
\* text and the filtered collection is the pipeline result for the typed
\* text; and a running timer leads to such a state.
C21_Debounce ==
    /\ [][(debouncedSearch' # debouncedSearch /\ ~Mounts) =>
            /\ debouncedSearch' = searchQuery
            /\ searchQuery' = searchQuery]_vars
    /\ []((pc = "mounted" /\ ~debounceTimer) =>
            /\ debouncedSearch = searchQuery
            /\ filteredData.value = ImmediateFilteredData)
    /\ (pc = "mounted" /\ debounceTimer)
          ~> (~debounceTimer /\ debouncedSearch = searchQuery)

\* The timer has fired after two-letter text was typed: the applied search is
\* that text and the page shows some but not all of its certificates.
C21_Witness ==
    /\ page = "certificates"
    /\ Ready
    /\ ~debounceTimer
    /\ Len(searchQuery) = 2
    /\ debouncedSearch = searchQuery
    /\ filteredData.value # <<>>
    /\ Len(filteredData.value) < Len(certificates)

\* The item under the view-mode key.
ViewModeSlot == storage[VIEW_MODE_KEY]

\* C22 without its first clause: on the code-signing page a new instance
\* starts with "table" when the view-mode slot is absent or empty and with
\* the slot's value otherwise; a view-mode change leaves the selected mode in
\* the view state and in the slot and changes neither the key collection nor
\* the item under the cache key; and the view mode of a mounted page whose
\* slot holds a mode is the mode in the slot.
C22_ViewModeFromSlot ==
    /\ [][(page = "code-signing" /\ Mounts) =>
            viewMode' = IF ViewModeSlot.present /\ ViewModeSlot.text # <<>>
                        THEN ViewModeSlot.text[1].v ELSE "table"]_vars
    /\ [][\A mode \in ViewModes : handleViewModeChange(mode) =>
            /\ viewMode' = mode
            /\ ViewModeSlot' = Item(StringText(mode))
            /\ keys' = keys
            /\ storage'[CodeSigningKeyCache] = storage[CodeSigningKeyCache]]_vars
    /\ []((page = "code-signing" /\ pc = "mounted" /\ ViewModeSlot.present
             /\ ViewModeSlot.text # <<>>)
            => ViewModeSlot.text = StringText(viewMode))

C22_Restored ==
    /\ page = "code-signing"
    /\ Ready
    /\ viewMode = "grid"
    /\ ViewModeSlot = Item(StringText("grid"))
    /\ Len(keys) = NumKeys

\* The load of a torn-down instance ends.
StaleLoadEnds == LoadResolve /\ Len(pending) > 1

\* C23: a teardown followed by a new instance of the page keeps the loads
\* already waiting, in order, and adds the new instance's load with the item
\* the slot holds at that moment; the continuation of a torn-down instance's
\* load writes the serialized bundled dataset to the slot when the item it
\* read was absent or empty and leaves the slot alone otherwise, and does not
\* touch the state of the mounted instance; and the load of the mounted
\* instance ends according to the item it read at its activation, whatever
\* the slot holds by then.
C23_TeardownKeepsLoad ==
    /\ [][Remount => pending' = Append(pending, Slot)]_vars
    /\ [][StaleLoadEnds =>
            /\ pending' = Tail(pending)
            /\ storage' =
                  IF Head(pending).present /\ Head(pending).text # <<>>
                  THEN storage
                  ELSE [storage EXCEPT ![CACHE_KEY(page)] =
                           Item(Stringify(BundledData(page)))]
            /\ Collection' = Collection
            /\ loading' = loading
            /\ error' = error]_vars
    /\ [][LiveLoadEnds =>
            LET cached == Head(pending)
            IN  IF ~cached.present \/ cached.text = <<>>
                THEN Collection' = BundledData(page) /\ Phase' = "Ready"
                ELSE IF Parse(cached.text) # <<>>
                THEN Collection' = Parse(cached.text)[1] /\ Phase' = "Ready"
                ELSE Collection' = <<>> /\ Phase' = "Error"]_vars

\* The first instance's load found no snapshot and has persisted the bundled
\* dataset after its teardown; the load of the second instance, which read
\* the slot before that write, still waits with the absent item.
C23_Witness ==
    /\ pc = "mounted"
    /\ loading
    /\ Len(pending) = 1
    /\ ~Head(pending).present
    /\ Slot = Item(Stringify(BundledData(page)))
    /\ Collection = <<>>

\* C24: on the certificates page, in every ready state whose filtered
\* collection is not empty, the page index is at least 1 and at most the
\* number of pages, and the visible page is not empty.
C24_PageInRange ==
    (page = "certificates" /\ Ready /\ filteredData.value # <<>>) =>
        /\ 1 <= currentPage
        /\ currentPage <= totalPages
        /\ paginatedData # <<>>

\* A later page is shown under a search and a record of it was renamed to a
\* name the search does not match: the filtered collection is not empty, the
\* page index is past the last page and the visible page is empty.
C24_Witness ==
    /\ page = "certificates"
    /\ Ready
    /\ debouncedSearch # <<>>
    /\ filteredData.value # <<>>
    /\ filteredData.value = ComputeFilteredData
    /\ currentPage > totalPages
    /\ paginatedData = <<>>
    /\ View = "empty"
    /\ \E i \in 1..Len(certificates) : certificates[i].name = <<"a">>

\* A text that is present, not empty and does not parse.
Unparseable(item) == item.present /\ item.text # <<>> /\ Parse(item.text) = <<>>

\* C25: a load that read an unparseable text, of the mounted instance or of
\* a torn-down one, writes nothing to storage; no step of the page changes a
\* slot that holds an unparseable text; while the slot holds one the page is
\* never ready; and every load of the mounted instance that ends while the
\* slot holds one, the loads started by a reload included, ends in Error.
C25_FailedLoadKeepsSlot ==
    /\ [][(LoadResolve /\ Unparseable(Head(pending))) =>
            storage' = storage]_vars
    /\ [][Slot' # Slot => ~Unparseable(Slot)]_vars
    /\ [](Phase = "Ready" => ~Unparseable(Slot))
    /\ [][(LiveLoadEnds /\ Unparseable(Slot)) =>
            /\ Phase' = "Error"
            /\ Collection' = <<>>]_vars

\* The error panel of the audit-logs page over an unparseable slot, no load
\* waiting: the retry is the only control.
C25_Witness ==
    /\ page = "audit-logs"
    /\ Phase = "Error"
    /\ pending = <<>>
    /\ Unparseable(Slot)
    /\ logs = <<>>
    /\ ~loading

CertificatesSlot == storage[CertificatesKey]

\* C26: every step that changes the certificates slot leaves in it the
\* serialization of a collection that is not empty, the in-memory collection
\* or the bundled dataset; and a step of the certificates page that ends in
\* Loading or Error, the mount of a new instance included, leaves a slot that
\* holds a snapshot as it was.
C26_NoEmptySnapshot ==
    /\ [][CertificatesSlot' # CertificatesSlot =>
            /\ CertificatesSlot' # Item(Stringify(<<>>))
            /\ \/ /\ certificates' # <<>>
                  /\ CertificatesSlot' = Item(Stringify(certificates'))
               \/ CertificatesSlot' = Item(Stringify(BundledData(page)))]_vars
    /\ [][(/\ page = "certificates"
           /\ Phase' \in {"Loading", "Error"}
           /\ CertificatesSlot.present
           /\ CertificatesSlot.text # <<>>)
            => /\ certificates' = <<>>
               /\ CertificatesSlot' = CertificatesSlot]_vars

\* A reload of a ready page whose snapshot holds a renamed certificate: the
\* new instance is loading with the empty collection and the snapshot is
\* still the one read by its load.
C26_Witness ==
    /\ page = "certificates"
    /\ Phase = "Loading"
    /\ certificates = <<>>
    /\ pending = <<CertificatesSlot>>
    /\ CertificatesSlot.present
    /\ CertificatesSlot.text # <<>>
    /\ CertificatesSlot # Item(Stringify(BundledData(page)))
    /\ CertificatesSlot # Item(Stringify(Reverse(Tail(BundledData(page)))))
    /\ CertificatesSlot # Item(CorruptText)
    /\ CertificatesSlot # Item(Stringify(<<>>))

=============================================================================
